---- MODULE Spec2Model ----
(***************************************************************************)
(* Serverless data lake: the ingest, index and query Lambda handlers of    *)
(* python-data-ingestions/, the standalone blob-event handler of           *)
(* lambda-function.py, and the three stores they share (S3 bucket,         *)
(* DynamoDB metadata table, Elasticsearch/OpenSearch domain).              *)
(***************************************************************************)
EXTENDS Integers, Sequences, FiniteSets, TLC

(* ------------------------------ bounds -------------------------------- *)
\* Number of uuid4 values the ingest handler may draw.
MaxIngest == 2
\* Largest value of the wall clock read by datetime.now().
MaxClock == 1
\* Number of handler invocations and uploads in one run.
MaxCalls == 3
\* Largest number of metadata items in the tables the query handler is run on.
MaxQRecords == 2
\* Largest number of items in the uniform tables the unfiltered scan is run on.
MaxScanRecords == 22

(* ------------------------- program constants -------------------------- *)
\* metadata_table.scan(Limit=20)
ScanLimit == 20

S3_BUCKET == "lake"
ENVIRONMENT == "dev"

(* ----------------------------- data shapes ---------------------------- *)
\* An S3 key "d1/d2/name.ext": its directory segments, the stem and the
\* extension of its last segment.  A key ending in "/" has an empty last
\* segment.
KeyOf(dir, name, ext) == [dir |-> dir, name |-> name, ext |-> ext]

\* key.endswith('/')
EndsWithSlash(key) == key.name = "" /\ key.ext = ""

\* len(key.split('/'))
PathDepth(key) == Len(key.dir) + 1

\* A JSON value: an object (one row) or an array of objects.
JsonObj(row) == [kind |-> "obj", rows |-> <<row>>]
JsonArr(rows) == [kind |-> "arr", rows |-> rows]

\* json.dumps: the text of a JSON value.
json_dumps(v) == [fmt |-> "json", kind |-> v.kind, rows |-> v.rows]

\* json.loads succeeds on JSON text only.
IsJsonText(t) == t.fmt = "json"

\* json.loads
json_loads(t) == [kind |-> t.kind, rows |-> t.rows]

\* The text of a CSV file and of a zero-byte object.
CsvText(rows) == [fmt |-> "csv", kind |-> "table", rows |-> rows]
EmptyText == [fmt |-> "empty", kind |-> "none", rows |-> <<>>]

\* len(data_content)
TextLen(t) == Len(t.rows)

\* f"s3://{bucket}/{key}"
S3Url(bucket, key) == [scheme |-> "s3://", bucket |-> bucket, key |-> key]

\* s3_location[5:].split('/', 1)
ParseS3Location(loc) == [bucket |-> loc.bucket, key |-> loc.key]

\* dict.get(field, default)
Get(d, field, default) == IF field \in DOMAIN d THEN d[field] ELSE default

\* str.lower() on the strings of the model.
Lower(s) ==
    CASE s = "Sales" -> "sales"
      [] s = "data-Sales" -> "data-sales"
      [] s = "metadata-Sales" -> "metadata-sales"
      [] OTHER -> s

PayloadAnn == JsonObj([name |-> "Ann"])
PayloadBob == JsonObj([name |-> "Bob"])

\* generate_sample_data(data_type)
generate_sample_data(data_type) == JsonObj([sample |-> data_type])

\* Request bodies of the ingest handler.
IngestBodies ==
    { [dataType |-> "sales", data |-> PayloadAnn],
      [dataType |-> "Sales", data |-> PayloadBob, tags |-> <<"a">>],
      [dataType |-> "sales"] }

\* An id generator that repeats itself.
Uuid4_Repeats(n) == "u1"

\* str(uuid.uuid4()): the n-th value drawn.
Uuid4(n) == "u" \o ToString(n)

\* timestamp[:10], the date part of the clock value.
DateOf(t) == "d" \o ToString(t)

(* ------------------------------- state -------------------------------- *)
VARIABLES
    blobs,        \* S3 bucket: key -> text
    meta,         \* DynamoDB table: id -> item
    esDocs,       \* search domain: <<index, doc id>> -> document
    esIndices,    \* search domain: the indices that exist
    ES_ENDPOINT,  \* whether the ES_ENDPOINT environment variable is set
    now,          \* the wall clock
    uuids,        \* how many uuid4 values have been drawn
    ing,          \* ingest invocations between their S3 put and their DynamoDB put
    acked,        \* history: dataId -> payload of every ingest that returned success
    calls,        \* how many handler invocations and uploads have started
    resp,         \* the response of the invocation the last step finished, if any
    pending       \* event records made by a write and not yet handed to a handler

vars == <<blobs, meta, esDocs, esIndices, ES_ENDPOINT, now, uuids, ing, acked, calls, resp,
          pending>>

EmptyMap == [k \in {} |-> 0]

\* One more invocation starts.
Call == calls < MaxCalls /\ calls' = calls + 1

\* m with key k set to v.
Put(m, k, v) == [x \in DOMAIN m \cup {k} |-> IF x = k THEN v ELSE m[x]]

NoResp == [op |-> "none", status |-> 0, success |-> FALSE]

Init ==
    /\ blobs = EmptyMap
    /\ meta = EmptyMap
    /\ esDocs = EmptyMap
    /\ esIndices = {}
    /\ ES_ENDPOINT \in BOOLEAN
    /\ now = 0
    /\ uuids = 0
    /\ ing = <<>>
    /\ acked = EmptyMap
    /\ calls = 0
    /\ resp = NoResp
    /\ pending = {}

\* Time passes between two reads of datetime.now().
Tick ==
    /\ now < MaxClock
    /\ now' = now + 1
    /\ resp' = NoResp
    /\ UNCHANGED <<blobs, meta, esDocs, esIndices, ES_ENDPOINT, uuids, ing, acked, calls>>

(* ------------------------- ingest-data-lambda ------------------------- *)
\* The body after line 62: sample data filled in when 'data' is missing.
WithData(body) ==
    IF "data" \in DOMAIN body THEN body
    ELSE [f \in DOMAIN body \cup {"data"} |->
            IF f = "data" THEN generate_sample_data(Get(body, "dataType", "unknown"))
            ELSE body[f]]

\* s3_key = f"{data_type}/{timestamp[:10]}/{data_id}.json"
IngestKey(data_type, timestamp, data_id) ==
    KeyOf(<<data_type, DateOf(timestamp)>>, data_id, "json")

\* metadata_item of lines 79-94.
MetadataItem(data_id, timestamp, body, s3_key) ==
    LET base == [id |-> data_id,
                 timestamp |-> timestamp,
                 dataType |-> Get(body, "dataType", "unknown"),
                 source |-> Get(body, "source", "api"),
                 owner |-> Get(body, "owner", "system"),
                 s3Location |-> S3Url(S3_BUCKET, s3_key),
                 sizeBytes |-> TextLen(json_dumps(body.data)),
                 status |-> "ingested"]
        opt == {f \in {"tags", "description"} : f \in DOMAIN body}
    IN [f \in DOMAIN base \cup opt |-> IF f \in opt THEN body[f] ELSE base[f]]

\* The handler with the payload write left out: the id and the key are
\* chosen, but no object is put before the metadata item is written.
IngestPutObject_NoBlob(body0) ==
    /\ Call
    /\ ing = <<>>
    /\ uuids < MaxIngest
    /\ LET body == WithData(body0)
           data_id == Uuid4(uuids + 1)
           s3_key == IngestKey(Get(body, "dataType", "unknown"), now, data_id)
       IN ing' = <<[data_id |-> data_id, timestamp |-> now, body |-> body, s3_key |-> s3_key]>>
    /\ uuids' = uuids + 1
    /\ resp' = NoResp
    /\ UNCHANGED <<blobs, meta, esDocs, esIndices, ES_ENDPOINT, now, acked>>

\* Lines 36-76: the id and the key are chosen and s3_client.put_object returns.
IngestPutObject(body0) ==
    /\ Call
    /\ ing = <<>>
    /\ uuids < MaxIngest
    /\ LET body == WithData(body0)
           data_id == Uuid4(uuids + 1)
           s3_key == IngestKey(Get(body, "dataType", "unknown"), now, data_id)
       IN /\ blobs' = Put(blobs, s3_key, json_dumps(body.data))
          /\ ing' = <<[data_id |-> data_id, timestamp |-> now, body |-> body, s3_key |-> s3_key]>>
    /\ uuids' = uuids + 1
    /\ resp' = NoResp
    /\ UNCHANGED <<meta, esDocs, esIndices, ES_ENDPOINT, now, acked>>

\* Lines 36-76 and 116-124: s3_client.put_object raises.
IngestPutObjectFails(body0) ==
    /\ Call
    /\ ing = <<>>
    /\ uuids < MaxIngest
    /\ uuids' = uuids + 1
    /\ resp' = [op |-> "ingest", status |-> 500, success |-> FALSE]
    /\ UNCHANGED <<blobs, meta, esDocs, esIndices, ES_ENDPOINT, now, ing, acked>>

\* Lines 78-114: metadata_table.put_item replaces the item and the handler
\* answers 200 with the dataId.
IngestPutItem ==
    /\ ing # <<>>
    /\ LET i == ing[1]
       IN /\ meta' = Put(meta, i.data_id, MetadataItem(i.data_id, i.timestamp, i.body, i.s3_key))
          /\ acked' = Put(acked, i.data_id, i.body.data)
          /\ resp' = [op |-> "ingest", status |-> 200, success |-> TRUE,
                      dataId |-> i.data_id, s3Location |-> S3Url(S3_BUCKET, i.s3_key)]
    /\ ing' = <<>>
    /\ UNCHANGED <<blobs, esDocs, esIndices, ES_ENDPOINT, now, uuids, calls>>

\* A handler that lets the error of put_item reach its caller: no result.
IngestPutItemFails_Propagates ==
    /\ ing # <<>>
    /\ ing' = <<>>
    /\ resp' = [op |-> "ingest", status |-> 0, success |-> FALSE]
    /\ UNCHANGED <<blobs, meta, esDocs, esIndices, ES_ENDPOINT, now, uuids, acked, calls>>

\* Lines 97 and 116-133: metadata_table.put_item raises.
IngestPutItemFails ==
    /\ ing # <<>>
    /\ ing' = <<>>
    /\ resp' = [op |-> "ingest", status |-> 500, success |-> FALSE]
    /\ UNCHANGED <<blobs, meta, esDocs, esIndices, ES_ENDPOINT, now, uuids, acked, calls>>

(* ------------------------- index-data-lambda -------------------------- *)
\* Where a collaborator call of one indexing attempt raises, if anywhere.
FailPoints == {"none", "get_object", "put_doc", "update_item"}

\* index_name.lower(), line 397.
EsIndexName(index_name) == Lower(index_name)

\* A helper whose request never reaches the domain: no document is written.
index_in_elasticsearch_Lost(docs, index_name, document_id, document) == docs

\* index_in_elasticsearch, lines 390-411, when requests.put answers 2xx:
\* the documents of the domain afterwards.
index_in_elasticsearch(docs, index_name, document_id, document) ==
    IF ~ES_ENDPOINT THEN docs
    ELSE Put(docs, <<EsIndexName(index_name), document_id>>, document)

\* The indices of the domain after the same call (a PUT of a document
\* creates its index).
IndicesAfterPut(indices, index_name) ==
    IF ~ES_ENDPOINT THEN indices ELSE indices \cup {EsIndexName(index_name)}

\* requests.put can answer an error only when a request is made.
PutDocRaises(fail) == ES_ENDPOINT /\ fail = "put_doc"

\* metadata_table.update_item(Key={'id': id}, "SET indexed = :indexed,
\* indexedAt = :indexedAt"): sets the two attributes, on a new item when the
\* table has none under the key.
update_item(tbl, data_id, t) ==
    LET old == IF data_id \in DOMAIN tbl THEN tbl[data_id] ELSE [id |-> data_id]
    IN Put(tbl, data_id,
           [f \in DOMAIN old \cup {"indexed", "indexedAt"} |->
               CASE f = "indexed" -> TRUE
                 [] f = "indexedAt" -> t
                 [] OTHER -> old[f]])

\* index_data of lines 151-155, 221-225, 282-286 and 354-358.
IndexDocument(metadata, content, t) ==
    [metadata |-> metadata, content |-> content, indexed_at |-> t]

\* Lines 157-159: the index name of the blob-event path.
IndexNameS3(metadata) == "data-" \o Get(metadata, "dataType", "unknown")

\* Lines 227-229: the index name of the on-demand path.
IndexNameById(metadata) == "data-" \o Get(metadata, "dataType", "unknown")

\* A bulk path that names its index with another prefix.
IndexNameBulk_OtherPrefix(data_type) == "bulk-" \o data_type

\* Line 289: the index name of the bulk path, from the data type asked for.
IndexNameBulk(data_type) == "data-" \o data_type

\* Lines 329 and 361: the index name of the reindex path.
IndexNameReindex(metadata) == "data-" \o Get(metadata, "dataType", "unknown")

\* Whether the item was marked indexed before the call.
WasIndexed(tbl, data_id) ==
    data_id \in DOMAIN tbl /\ Get(tbl[data_id], "indexed", FALSE)

\* What an invocation of the index handler did: its status code, the index
\* name it handed to index_in_elasticsearch for each id whose request did
\* not fail (put), the ids whose update_item returned (marked), and those of
\* them that were marked indexed before (again).
IndexResp(op, arg, status, put, marked, again) ==
    [op |-> op, arg |-> arg, status |-> status, success |-> status = 200,
     put |-> put, marked |-> marked, again |-> again]

\* f :> v, the function on {k}.
One(k, v) == [x \in {k} |-> v]

\* Synthesized metadata that also names a data type.
SynthesizedMetadata_WithType(data_id, key) ==
    [id |-> data_id, s3Location |-> S3Url(S3_BUCKET, key), dataType |-> "unknown"]

\* Lines 141-147: the metadata used when the table has no item for the id.
SynthesizedMetadata(data_id, key) ==
    [id |-> data_id, s3Location |-> S3Url(S3_BUCKET, key)]

\* What one call of index_s3_object or index_metadata leaves behind: the
\* table and the domain afterwards, whether the call raised, and the put,
\* marked and again of IndexResp.
CallOutcome(tbl, docs, indices, raised, put, marked, again) ==
    [meta |-> tbl, esDocs |-> docs, esIndices |-> indices, raised |-> raised,
     put |-> put, marked |-> marked, again |-> again]

\* index_s3_object, lines 119-174, called at time t on a table tbl and a
\* domain holding docs and indices.
index_s3_object(tbl, docs, indices, key, fail, t) ==
    LET found == key \in DOMAIN blobs /\ fail # "get_object"
        data_id == key.name
        metadata == IF data_id \in DOMAIN tbl THEN tbl[data_id]
                    ELSE SynthesizedMetadata(data_id, key)
        index_name == IndexNameS3(metadata)
        written == index_in_elasticsearch(docs, index_name, data_id,
                       IndexDocument(metadata, json_loads(blobs[key]), t))
    IN
    IF ~found THEN
       CallOutcome(tbl, docs, indices, TRUE, EmptyMap, {}, {})
    ELSE IF ~IsJsonText(blobs[key]) THEN
       CallOutcome(tbl, docs, indices, FALSE, EmptyMap, {}, {})
    ELSE IF PutDocRaises(fail) THEN
       CallOutcome(tbl, docs, indices, TRUE, EmptyMap, {}, {})
    ELSE IF fail = "update_item" THEN
       CallOutcome(tbl, written, IndicesAfterPut(indices, index_name), TRUE,
                   One(data_id, EsIndexName(index_name)), {}, {})
    ELSE
       CallOutcome(update_item(tbl, data_id, t), written,
                   IndicesAfterPut(indices, index_name), FALSE,
                   One(data_id, EsIndexName(index_name)), {data_id},
                   {x \in {data_id} : WasIndexed(tbl, x)})

\* The handler's answer to a one-record S3 event, lines 51-58 and 100-117.
IndexS3Event(key, fail) ==
    LET r == index_s3_object(meta, esDocs, esIndices, key, fail, now)
    IN
    /\ Call
    /\ meta' = r.meta
    /\ esDocs' = r.esDocs
    /\ esIndices' = r.esIndices
    /\ resp' = IndexResp("index_s3", key, IF r.raised THEN 500 ELSE 200,
                         r.put, r.marked, r.again)
    /\ UNCHANGED <<blobs, ES_ENDPOINT, now, uuids, ing, acked>>

\* index_by_id, lines 189-250, called from the API body branch (lines 67-87,
\* where every exception is answered 400) or from the direct branch (lines
\* 90-92 and 109-117, where it is answered 500).
IndexById(data_id, via, fail) ==
    LET errStatus == IF via = "body" THEN 400 ELSE 500
    IN
    /\ Call
    /\ IF data_id \notin DOMAIN meta THEN
          /\ resp' = IndexResp("index_by_id", data_id, 404, EmptyMap, {}, {})
          /\ UNCHANGED <<meta, esDocs, esIndices>>
       ELSE
          LET metadata == meta[data_id]
              hasLoc == "s3Location" \in DOMAIN metadata
              key == ParseS3Location(metadata.s3Location).key
              readable == /\ hasLoc
                          /\ fail # "get_object"
                          /\ key \in DOMAIN blobs
                          /\ IsJsonText(blobs[key])
              index_name == IndexNameById(metadata)
          IN
          IF ~readable \/ PutDocRaises(fail) THEN
             /\ resp' = IndexResp("index_by_id", data_id, errStatus, EmptyMap, {}, {})
             /\ UNCHANGED <<meta, esDocs, esIndices>>
          ELSE
             /\ esDocs' = index_in_elasticsearch(esDocs, index_name, data_id,
                              IndexDocument(metadata, json_loads(blobs[key]), now))
             /\ esIndices' = IndicesAfterPut(esIndices, index_name)
             /\ IF fail = "update_item" THEN
                   /\ meta' = meta
                   /\ resp' = IndexResp("index_by_id", data_id, errStatus,
                                        One(data_id, EsIndexName(index_name)), {}, {})
                ELSE
                   /\ meta' = update_item(meta, data_id, now)
                   /\ resp' = IndexResp("index_by_id", data_id, 200,
                                        One(data_id, EsIndexName(index_name)), {data_id},
                                        {x \in {data_id} : WasIndexed(meta, x)})
    /\ UNCHANGED <<blobs, ES_ENDPOINT, now, uuids, ing, acked>>

\* Lines 268-279 and 340-351: the item's blob is fetched and parsed.
Readable(metadata, fail) ==
    /\ "s3Location" \in DOMAIN metadata
    /\ fail # "get_object"
    /\ ParseS3Location(metadata.s3Location).key \in DOMAIN blobs
    /\ IsJsonText(blobs[ParseS3Location(metadata.s3Location).key])

\* The loop body of lines 266-305 and 338-377 run over the scanned items,
\* item m failing at fm[m.id] if anywhere: the items whose document was
\* handed to index_in_elasticsearch without an error, and those counted in
\* indexed_count.
BatchWritten(items, fm) ==
    {m \in items : Readable(m, fm[m.id]) /\ ~PutDocRaises(fm[m.id])}

BatchCounted(items, fm) ==
    {m \in BatchWritten(items, fm) : fm[m.id] # "update_item"}

BatchContent(m) == json_loads(blobs[ParseS3Location(m.s3Location).key])

\* The table after the update_item calls of the counted items.
BatchMeta(items, fm) ==
    LET ids == {m.id : m \in BatchCounted(items, fm)}
    IN [id \in DOMAIN meta |->
          IF id \in ids THEN update_item(meta, id, now)[id] ELSE meta[id]]

\* The answer of a batch: lines 307-315 and 379-388, with the ids scanned,
\* those whose blob could not be read, and those whose Elasticsearch request
\* or update_item raised.
BatchResp(op, arg, items, fm, put) ==
    IndexResp(op, arg, 200, put,
              {m.id : m \in BatchCounted(items, fm)},
              {m.id : m \in {x \in BatchCounted(items, fm) : WasIndexed(meta, x.id)}})
    @@ [selected |-> {m.id : m \in items},
        unreadable |-> {m.id : m \in {x \in items : ~Readable(x, fm[x.id])}},
        faults |-> {m.id : m \in {x \in items :
                        /\ Readable(x, fm[x.id])
                        /\ PutDocRaises(fm[x.id]) \/ fm[x.id] = "update_item"}},
        totalItems |-> Cardinality(items),
        indexedItems |-> Cardinality(BatchCounted(items, fm))]

\* bulk_index_by_type, lines 252-315.
BulkIndexByType(data_type, fm) ==
    LET items == {meta[id] : id \in {x \in DOMAIN meta :
                        "dataType" \in DOMAIN meta[x] /\ meta[x].dataType = data_type}}
        written == BatchWritten(items, fm)
        index_name == IndexNameBulk(data_type)
        newKeys == IF ES_ENDPOINT THEN {<<EsIndexName(index_name), m.id>> : m \in written} ELSE {}
    IN
    /\ Call
    /\ esDocs' = [k \in DOMAIN esDocs \cup newKeys |->
                    IF k \in newKeys
                    THEN index_in_elasticsearch(esDocs, index_name, k[2],
                             IndexDocument(meta[k[2]], BatchContent(meta[k[2]]), now))[k]
                    ELSE esDocs[k]]
    /\ esIndices' = IF written = {} THEN esIndices ELSE IndicesAfterPut(esIndices, index_name)
    /\ meta' = BatchMeta(items, fm)
    /\ resp' = BatchResp("bulk_index_by_type", data_type, items, fm,
                         [id \in {m.id : m \in written} |-> EsIndexName(index_name)])
    /\ UNCHANGED <<blobs, ES_ENDPOINT, now, uuids, ing, acked>>

\* reindex_all, lines 317-388.
ReindexAll(fm) ==
    LET items == {meta[id] : id \in DOMAIN meta}
        written == BatchWritten(items, fm)
        newKeys == IF ES_ENDPOINT
                   THEN {<<EsIndexName(IndexNameReindex(m)), m.id>> : m \in written} ELSE {}
    IN
    /\ Call
    /\ esDocs' = [k \in DOMAIN esDocs \cup newKeys |->
                    IF k \in newKeys
                    THEN index_in_elasticsearch(esDocs, IndexNameReindex(meta[k[2]]), k[2],
                             IndexDocument(meta[k[2]], BatchContent(meta[k[2]]), now))[k]
                    ELSE esDocs[k]]
    /\ esIndices' = IF ES_ENDPOINT
                    THEN esIndices \cup {EsIndexName(IndexNameReindex(m)) : m \in written}
                    ELSE esIndices
    /\ meta' = BatchMeta(items, fm)
    /\ resp' = BatchResp("reindex_all", "", items, fm,
                         [id \in {m.id : m \in written} |->
                             EsIndexName(IndexNameReindex(meta[id]))])
    /\ UNCHANGED <<blobs, ES_ENDPOINT, now, uuids, ing, acked>>

\* parse_dynamodb_value, lines 420-441: a number of the stream image comes
\* back as a float, every other attribute of the model as it is.
parse_dynamodb_value(f, v) ==
    IF f \in {"timestamp", "sizeBytes", "indexedAt"} THEN [float |-> v] ELSE v

\* convert_dynamodb_to_json, lines 413-418.
convert_dynamodb_to_json(image) ==
    [f \in DOMAIN image |-> parse_dynamodb_value(f, image[f])]

\* An index_metadata that also marks the item in the table.
index_metadata_MarksItem(tbl, docs, indices, item, fail) ==
    LET index_name == "metadata-" \o Get(item, "dataType", "unknown")
    IN
    IF PutDocRaises(fail) THEN
       CallOutcome(tbl, docs, indices, TRUE, EmptyMap, {}, {})
    ELSE
       CallOutcome(Put(tbl, item.id, [id |-> item.id, indexed |-> TRUE]),
                   index_in_elasticsearch(docs, index_name, item.id, item),
                   IndicesAfterPut(indices, index_name), FALSE,
                   One(item.id, EsIndexName(index_name)), {item.id}, {})

\* index_metadata, lines 176-187, for the item of a stream record.
index_metadata(tbl, docs, indices, item, fail) ==
    LET index_name == "metadata-" \o Get(item, "dataType", "unknown")
    IN
    IF PutDocRaises(fail) THEN
       CallOutcome(tbl, docs, indices, TRUE, EmptyMap, {}, {})
    ELSE
       CallOutcome(tbl, index_in_elasticsearch(docs, index_name, item.id, item),
                   IndicesAfterPut(indices, index_name), FALSE,
                   One(item.id, EsIndexName(index_name)), {}, {})

\* The handler's answer to the stream record of item data_id, lines 60-65
\* and 100-117.
IndexMetadata(data_id, fail) ==
    LET r == index_metadata(meta, esDocs, esIndices,
                            convert_dynamodb_to_json(meta[data_id]), fail)
    IN
    /\ Call
    /\ data_id \in DOMAIN meta
    /\ esDocs' = r.esDocs
    /\ esIndices' = r.esIndices
    /\ resp' = IndexResp("index_metadata", data_id, IF r.raised THEN 500 ELSE 200,
                         r.put, r.marked, r.again)
    /\ UNCHANGED <<blobs, meta, ES_ENDPOINT, now, uuids, ing, acked>>

\* Lines 77-87 and 97-98: a request that names no 'id', 'dataType' or
\* 'reindexAll'.
IndexBadRequest(via) ==
    /\ Call
    /\ resp' = IndexResp("index_bad_request", via, IF via = "body" THEN 400 ELSE 500,
                         EmptyMap, {}, {})
    /\ UNCHANGED <<blobs, meta, esDocs, esIndices, ES_ENDPOINT, now, uuids, ing, acked>>

\* One record of event['Records']: an S3 record names a key, a DynamoDB
\* stream record carries the NewImage of an item; fail is where the call
\* made for the record raises, if anywhere.
S3Record(key, fail) == [source |-> "s3", key |-> key, fail |-> fail]
StreamRecord(image, fail) == [source |-> "dynamodb", image |-> image, fail |-> fail]

\* The loop body of lines 52-65 for one record.
IndexRecord(tbl, docs, indices, record, t) ==
    IF record.source = "s3"
    THEN index_s3_object(tbl, docs, indices, record.key, record.fail, t)
    ELSE index_metadata(tbl, docs, indices,
                        convert_dynamodb_to_json(record.image), record.fail)

\* f @@ g on the maps of the model, g winning where both are defined.
Merge(f, g) == [k \in DOMAIN f \cup DOMAIN g |-> IF k \in DOMAIN g THEN g[k] ELSE f[k]]

\* A loop that logs the error of a record and goes on with the next one.
RECURSIVE IndexRecords_KeepsGoing(_, _, _, _)
IndexRecords_KeepsGoing(st, records, i, t) ==
    IF i > Len(records) THEN st
    ELSE LET r == IndexRecord(st.meta, st.esDocs, st.esIndices, records[i], t)
             after == [meta |-> r.meta, esDocs |-> r.esDocs, esIndices |-> r.esIndices,
                       raised |-> st.raised \/ r.raised,
                       put |-> Merge(st.put, r.put),
                       marked |-> st.marked \cup r.marked,
                       again |-> st.again \cup r.again,
                       failed |-> IF st.failed = 0 /\ r.raised THEN i ELSE st.failed]
         IN IndexRecords_KeepsGoing(after, records, i + 1, t)

\* The loop of lines 51-65 from record i on, in the try of line 47: the
\* exception of a record ends the loop (lines 109-117).  failed is the
\* number of the record that raised, 0 when none did.
RECURSIVE IndexRecords(_, _, _, _)
IndexRecords(st, records, i, t) ==
    IF i > Len(records) THEN st
    ELSE LET r == IndexRecord(st.meta, st.esDocs, st.esIndices, records[i], t)
             after == [meta |-> r.meta, esDocs |-> r.esDocs, esIndices |-> r.esIndices,
                       raised |-> r.raised,
                       put |-> Merge(st.put, r.put),
                       marked |-> st.marked \cup r.marked,
                       again |-> st.again \cup r.again,
                       failed |-> IF r.raised THEN i ELSE 0]
         IN IF r.raised THEN after ELSE IndexRecords(after, records, i + 1, t)

\* lambda_handler, lines 39-66 and 100-117, for an event of several records.
IndexEvent(records) ==
    LET r == IndexRecords(CallOutcome(meta, esDocs, esIndices, FALSE, EmptyMap, {}, {})
                             @@ [failed |-> 0],
                          records, 1, now)
    IN
    /\ Call
    /\ meta' = r.meta
    /\ esDocs' = r.esDocs
    /\ esIndices' = r.esIndices
    /\ resp' = IndexResp("index_event", records, IF r.raised THEN 500 ELSE 200,
                         r.put, r.marked, r.again) @@ [failed |-> r.failed]
    /\ UNCHANGED <<blobs, ES_ENDPOINT, now, uuids, ing, acked>>

(* ---------------- lambda-function.py (blob-event handler) ------------- *)
\* Where a collaborator call of process_file raises, if anywhere.
FileFailPoints == {"none", "get_object", "bulk", "put_marker", "put_processed"}

\* detect_file_type, lines 64-73.
detect_file_type(key) ==
    IF key.ext \in {"csv", "json", "parquet"} THEN key.ext ELSE "unknown"

\* Lines 184-193: the index name of the standalone handler.  No dataset or
\* file name of the model holds a '-' or an upper-case letter but "Sales".
ProcessFileIndexName(key) ==
    LET dataset_name == IF PathDepth(key) >= 3 /\ key.dir[1] = "raw"
                        THEN Lower(key.dir[2])
                        ELSE Lower(key.name)
    IN dataset_name \o "_" \o ENVIRONMENT

\* key.replace('raw/', 'processed/'), line 210.  The only directory segment
\* of the model that ends in "raw" is "raw" itself.
ProcessedKey(key) ==
    KeyOf([i \in 1..Len(key.dir) |-> IF key.dir[i] = "raw" THEN "processed" ELSE key.dir[i]],
          key.name, key.ext)

\* f"{directory}/", line 216.
DirectoryMarker(key) == KeyOf(key.dir, "", "")

\* The columns of a data frame: every field some row of the file has.
Columns(rows) == UNION {DOMAIN rows[i] : i \in 1..Len(rows)}

\* read_file_content, lines 83-98: the rows of the data frame pandas builds,
\* each with every column, NaN where the file's row has no such field.
DataFrame(text) ==
    [i \in 1..Len(text.rows) |->
        [c \in Columns(text.rows) |->
            IF c \in DOMAIN text.rows[i] THEN text.rows[i][c] ELSE "NaN"]]

\* Lines 147-152: NaN values are sent as null.
CleanedRecord(record) ==
    [c \in DOMAIN record |->
        IF c # "processed_timestamp" /\ record[c] = "NaN" THEN "None" ELSE record[c]]

\* Lines 138-156: every row gets the processed_timestamp column.
WithProcessedTimestamp(row, t) ==
    [f \in DOMAIN row \cup {"processed_timestamp"} |->
        IF f = "processed_timestamp" THEN t ELSE row[f]]

\* An index_data that empties the index before it writes the rows.
index_data_Recreates(docs, index_name, df, rejected) ==
    LET newKeys == {<<index_name, ToString(i - 1)>> : i \in {j \in 1..Len(df) : j - 1 \notin rejected}}
        kept == {k \in DOMAIN docs : k[1] # index_name}
    IN [k \in kept \cup newKeys |->
          IF k \in newKeys
          THEN CleanedRecord(df[CHOOSE i \in 1..Len(df) : ToString(i - 1) = k[2]])
          ELSE docs[k]]

\* index_data, lines 134-172, when client.bulk returns: row i is written
\* under document id str(i), but for the rows whose item of the bulk response
\* carries an error (rejected), which are logged at lines 161-165 and left
\* as the index held them.
index_data(docs, index_name, df, rejected) ==
    LET newKeys == {<<index_name, ToString(i - 1)>> : i \in {j \in 1..Len(df) : j - 1 \notin rejected}}
    IN [k \in DOMAIN docs \cup newKeys |->
          IF k \in newKeys
          THEN CleanedRecord(df[CHOOSE i \in 1..Len(df) : ToString(i - 1) = k[2]])
          ELSE docs[k]]

\* Lines 221-232: the text of the processed copy.
ProcessedText(key, df) ==
    IF key.ext = "json" THEN json_dumps(JsonArr(df)) ELSE CsvText(df)

\* A handler that skips directory markers only.
SkipsKey_MarkersOnly(key) == EndsWithSlash(key)

\* Lines 262 and 180: directory markers and keys of fewer than two segments
\* are skipped.
SkipsKey(key) == EndsWithSlash(key) \/ PathDepth(key) < 2

\* What one record of an ObjectCreated event leaves behind: the bucket and
\* the domain afterwards, whether process_file raised, and what it did.
FileOutcome(bucket, docs, indices, raised, index, records_indexed, copy) ==
    [blobs |-> bucket, esDocs |-> docs, esIndices |-> indices, raised |-> raised,
     index |-> index, records_indexed |-> records_indexed, copy |-> copy]

\* The loop body of lambda_handler, lines 253-270, with process_file, lines
\* 174-245, run at time t on a bucket and a domain holding docs and indices;
\* fail is where a collaborator raises, rejected the rows the bulk response
\* flags.
process_file(bucket, docs, indices, key, fail, rejected, t) ==
    LET index_name == ProcessFileIndexName(key)
        df == [i \in 1..Len(DataFrame(bucket[key])) |->
                  WithProcessedTimestamp(DataFrame(bucket[key])[i], t)]
        processed_key == ProcessedKey(key)
        marker == DirectoryMarker(processed_key)
        withMarker == IF Len(processed_key.dir) > 0 /\ fail # "put_marker"
                      THEN Put(bucket, marker, EmptyText) ELSE bucket
        created == indices \cup {index_name}
    IN
    IF SkipsKey(key) THEN
       FileOutcome(bucket, docs, indices, FALSE, "", 0, "none")
    ELSE IF key \notin DOMAIN bucket \/ fail = "get_object" THEN
       FileOutcome(bucket, docs, created, TRUE, index_name, 0, "none")
    ELSE IF detect_file_type(key) = "unknown" THEN
       FileOutcome(bucket, docs, created, FALSE, index_name, 0, "none")
    ELSE IF fail = "bulk" THEN
       FileOutcome(bucket, docs, created, TRUE, index_name, 0, "none")
    ELSE IF fail = "put_processed" THEN
       FileOutcome(withMarker, index_data(docs, index_name, df, rejected), created,
                   TRUE, index_name, Len(df), "failed")
    ELSE
       FileOutcome(Put(withMarker, processed_key, ProcessedText(processed_key, df)),
                   index_data(docs, index_name, df, rejected), created,
                   FALSE, index_name, Len(df), "written")

\* The row numbers of the file under key.
RowNumbers(key) ==
    IF key \in DOMAIN blobs THEN 0..(Len(DataFrame(blobs[key])) - 1) ELSE {}

\* lambda_handler, lines 247-281, for a one-record ObjectCreated event.
BlobEvent(key, fail) ==
    \E rejected \in SUBSET RowNumbers(key) :
       LET r == process_file(blobs, esDocs, esIndices, key, fail, rejected, now)
       IN
       /\ Call
       /\ blobs' = r.blobs
       /\ esDocs' = r.esDocs
       /\ esIndices' = r.esIndices
       /\ resp' = [op |-> "process_file", key |-> key,
                   status |-> IF r.raised THEN 500 ELSE 200, success |-> ~r.raised,
                   index |-> r.index, records_indexed |-> r.records_indexed,
                   copy |-> r.copy,
                   rejected |-> IF r.copy = "none" THEN {} ELSE rejected]
       /\ UNCHANGED <<meta, ES_ENDPOINT, now, uuids, ing, acked>>

(* --------------------- uploads by other S3 clients -------------------- *)
\* Objects put into the bucket from outside the handlers: a data set file
\* under raw/ as data-upload-script.py names it, and a JSON file at the root
\* of the bucket.
Uploads ==
    { [key |-> KeyOf(<<"raw", "sales">>, "sales_1", "csv"),
       text |-> CsvText(<<[name |-> "Ann"], [name |-> "Bob"]>>)],
      [key |-> KeyOf(<<>>, "f1", "json"),
       text |-> json_dumps(PayloadAnn)] }

\* s3.upload_file, data-upload-script.py line 159.
Upload(u) ==
    /\ Call
    /\ u.key \notin DOMAIN blobs
    /\ blobs' = Put(blobs, u.key, u.text)
    /\ resp' = NoResp
    /\ UNCHANGED <<meta, esDocs, esIndices, ES_ENDPOINT, now, uuids, ing, acked>>

(* -------------------------- query-data-lambda ------------------------- *)
\* Attr(name).eq(value): false when the item lacks the attribute.
AttrEq(item, name, value) == name \in DOMAIN item /\ item[name] = value

\* Attr(name).between(lo, hi).
AttrBetween(item, name, lo, hi) ==
    name \in DOMAIN item /\ lo <= item[name] /\ item[name] <= hi

\* Attr(name).contains(value) on a list attribute.
AttrContains(item, name, value) ==
    name \in DOMAIN item /\ \E i \in 1..Len(item[name]) : item[name][i] = value

\* One condition of a filter expression, evaluated on an item.
CondHolds(item, c) ==
    CASE c.f = "eq" -> AttrEq(item, c.name, c.value)
      [] c.f = "between" -> AttrBetween(item, c.name, c.lo, c.hi)
      [] c.f = "contains" -> AttrContains(item, c.name, c.value)

\* A filter that keeps the latest condition only instead of conjoining.
AndCond_Replace(filter_expression, expr) == <<expr>>

\* filter_expression & expr, lines 132, 136, 140 and 145.
AndCond(filter_expression, expr) == Append(filter_expression, expr)

\* Lines 142-145: one contains condition per listed tag, each conjoined.
RECURSIVE AndTags(_, _)
AndTags(filter_expression, tags) ==
    IF tags = <<>> THEN filter_expression
    ELSE AndTags(AndCond(filter_expression,
                         [f |-> "contains", name |-> "tags", value |-> Head(tags)]),
                 Tail(tags))

\* Lines 124-145: the filter expression, as the list of the conditions it
\* conjoins; the empty list is None.
BuildFilter(params) ==
    LET f1 == IF "dataType" \in DOMAIN params
              THEN <<[f |-> "eq", name |-> "dataType", value |-> params.dataType]>>
              ELSE <<>>
        f2 == IF "owner" \in DOMAIN params
              THEN AndCond(f1, [f |-> "eq", name |-> "owner", value |-> params.owner])
              ELSE f1
        f3 == IF "source" \in DOMAIN params
              THEN AndCond(f2, [f |-> "eq", name |-> "source", value |-> params.source])
              ELSE f2
        f4 == IF "fromDate" \in DOMAIN params /\ "toDate" \in DOMAIN params
              THEN AndCond(f3, [f |-> "between", name |-> "timestamp",
                                lo |-> params.fromDate, hi |-> params.toDate])
              ELSE f3
        tags == IF "tags" \in DOMAIN params THEN params.tags ELSE <<>>
    IN AndTags(f4, tags)

\* metadata_table.scan(FilterExpression=...), line 149.
ScanFiltered(tbl, filter_expression) ==
    {id \in DOMAIN tbl :
        \A i \in 1..Len(filter_expression) : CondHolds(tbl[id], filter_expression[i])}

\* The subsets of S with k elements, for small k.
RECURSIVE KSubsets(_, _)
KSubsets(S, k) ==
    IF k = 0 THEN {{}}
    ELSE UNION {{T \cup {x} : T \in KSubsets(S \ {x}, k - 1)} : x \in S}

\* How many items a scan with Limit=limit returns.
PageSize(tbl, limit) ==
    IF Cardinality(DOMAIN tbl) <= limit THEN Cardinality(DOMAIN tbl) ELSE limit

\* A scan without Limit: the whole table.
ScanLimited_NoLimit(tbl, limit) == {DOMAIN tbl}

\* metadata_table.scan(Limit=20), line 152: the pages the table may answer
\* with, whichever items it evaluates first.
ScanLimited(tbl, limit) ==
    {DOMAIN tbl \ E : E \in KSubsets(DOMAIN tbl, Cardinality(DOMAIN tbl) - PageSize(tbl, limit))}

\* search_metadata, lines 119-158: the result sets it may return.
search_metadata(tbl, params) ==
    IF BuildFilter(params) # <<>>
    THEN {ScanFiltered(tbl, BuildFilter(params))}
    ELSE ScanLimited(tbl, ScanLimit)

\* query type 'metadata', lines 57-59 and 72-80.
SearchMetadata(params) ==
    /\ \E items \in search_metadata(meta, params) :
          resp' = [op |-> "search_metadata", params |-> params, status |-> 200,
                   success |-> TRUE, count |-> Cardinality(items), items |-> items]
    /\ UNCHANGED <<blobs, meta, esDocs, esIndices, ES_ENDPOINT, now, uuids, ing, acked>>

\* query_by_id, lines 101-117, with the handler's answer, lines 53-55, 72-99.
\* data_id = "" stands for a request without an id.
QueryById(data_id) ==
    /\ resp' = [op |-> "query_by_id", id |-> data_id,
                status |-> IF data_id = "" THEN 500 ELSE 200,
                success |-> data_id \in DOMAIN meta]
    /\ UNCHANGED <<blobs, meta, esDocs, esIndices, ES_ENDPOINT, now, uuids, ing, acked>>

NoContent == [kind |-> "none", rows |-> <<>>]

\* The outcome of get_content, lines 160-193: "missing_id" (ValueError),
\* "no_item" (the normal negative result), "no_location" (KeyError),
\* "s3_error" (ClientError of get_object), "not_json" (json.loads raises) or
\* "ok".
GetContentOutcome(data_id, fail) ==
    IF data_id = "" THEN "missing_id"
    ELSE IF data_id \notin DOMAIN meta THEN "no_item"
    ELSE IF "s3Location" \notin DOMAIN meta[data_id] THEN "no_location"
    ELSE IF ParseS3Location(meta[data_id].s3Location).key \notin DOMAIN blobs
            \/ fail = "get_object" THEN "s3_error"
    ELSE IF ~IsJsonText(blobs[ParseS3Location(meta[data_id].s3Location).key]) THEN "not_json"
    ELSE "ok"

\* query type 'content': get_content with the handler's answer, lines 61-63
\* and 72-99.
GetContent(data_id, fail) ==
    LET outcome == GetContentOutcome(data_id, fail)
    IN
    /\ resp' = [op |-> "get_content", id |-> data_id, outcome |-> outcome,
                status |-> IF outcome \in {"ok", "no_item"} THEN 200 ELSE 500,
                success |-> outcome = "ok",
                content |-> IF outcome = "ok"
                            THEN json_loads(blobs[ParseS3Location(meta[data_id].s3Location).key])
                            ELSE NoContent]
    /\ UNCHANGED <<blobs, meta, esDocs, esIndices, ES_ENDPOINT, now, uuids, ing, acked>>

\* execute_sql_query, lines 195-218 (sql = "" is a request without SQL text;
\* start_query_execution may raise), and an unsupported query type, lines
\* 69-70.
QueryOther(kind, fail) ==
    /\ kind \in {"sql", "sql_missing", "unsupported"}
    /\ resp' = [op |-> "query_" \o kind,
                status |-> IF kind = "sql" /\ ~fail THEN 200 ELSE 500,
                success |-> kind = "sql" /\ ~fail]
    /\ UNCHANGED <<blobs, meta, esDocs, esIndices, ES_ENDPOINT, now, uuids, ing, acked>>

\* The ids a request may name: those of the table, those of the files of
\* the bucket, one unknown id and the missing id.
RequestIds == DOMAIN meta \cup {k.name : k \in DOMAIN blobs} \cup {"nope", ""}

(* --------------- the query handler on tables drawn at large ----------- *)
\* r restricted to the fields F.
Restrict(r, F) == [f \in F |-> r[f]]

QIds(n) == {"q" \o ToString(i) : i \in 1..n}

\* Ingest bodies of the items of the tables: data type, owner and source
\* vary, tags are absent or listed.
QCombos ==
    { [dataType |-> "sales", owner |-> "system", source |-> "api", data |-> PayloadAnn,
       tags |-> <<"a", "b">>],
      [dataType |-> "user", owner |-> "system", source |-> "batch", data |-> PayloadAnn,
       tags |-> <<"a">>],
      [dataType |-> "sales", owner |-> "ann", source |-> "api", data |-> PayloadAnn,
       tags |-> <<"b">>] }

QBodies == QCombos \cup {Restrict(b, DOMAIN b \ {"tags"}) : b \in QCombos}

\* The item the ingest handler writes for a body at time ts, and the item
\* update_item leaves under an id that had none.
QItem(id, ts, body) ==
    IF body = [stub |-> TRUE] THEN update_item(EmptyMap, id, ts)[id]
    ELSE MetadataItem(id, ts, body, IngestKey(body.dataType, ts, id))

QTables(n) ==
    {[id \in QIds(n) |-> QItem(id, c[id].ts, c[id].body)] :
        c \in [QIds(n) -> [ts : {1, 2}, body : QBodies \cup {[stub |-> TRUE]}]]}

\* A table of n items that one ingest body wrote at one time.
UniformTable(n) ==
    [id \in QIds(n) |-> QItem(id, 1, [dataType |-> "sales", data |-> PayloadAnn])]

\* The bucket holding the payload of the items of ids.
BlobsOf(tbl, ids) ==
    LET keys == {ParseS3Location(tbl[id].s3Location).key : id \in ids}
    IN [k \in keys |-> json_dumps(PayloadAnn)]

\* The query parameters: every subset of the recognised criteria.
QParams ==
    {Restrict(full, F \cup {"type"}) :
        full \in [type : {"metadata"}, dataType : {"sales"}, owner : {"system"},
                  source : {"api"}, fromDate : {1}, toDate : {1, 2},
                  tags : {<<"a">>, <<"a", "b">>}],
        F \in SUBSET {"dataType", "owner", "source", "fromDate", "toDate", "tags"}}

InitQuery ==
    /\ \/ /\ meta \in UNION {QTables(n) : n \in 0..MaxQRecords}
          /\ blobs = EmptyMap
       \/ /\ meta \in {UniformTable(n) : n \in 1..MaxQRecords}
          /\ blobs \in {BlobsOf(meta, ids) : ids \in SUBSET DOMAIN meta}
       \/ /\ meta \in {UniformTable(n) : n \in (MaxQRecords + 1)..MaxScanRecords}
          /\ blobs = EmptyMap
    /\ esDocs = EmptyMap
    /\ esIndices = {}
    /\ ES_ENDPOINT = TRUE
    /\ now = 0
    /\ uuids = 0
    /\ ing = <<>>
    /\ acked = EmptyMap
    /\ calls = 0
    /\ resp = NoResp
    /\ pending = {}

\* One invocation of the query handler on the table drawn.
QuerySearch == \E params \in QParams : SearchMetadata(params)
QueryId == \E id \in RequestIds : QueryById(id)
QueryContent == \E id \in RequestIds, fail \in {"none", "get_object"} : GetContent(id, fail)
QuerySql == \E kind \in {"sql", "sql_missing", "unsupported"}, fail \in BOOLEAN : QueryOther(kind, fail)

NextQuery ==
    \/ resp = NoResp /\ QuerySearch /\ UNCHANGED calls /\ UNCHANGED pending
    \/ resp = NoResp /\ QueryId /\ UNCHANGED calls /\ UNCHANGED pending
    \/ resp = NoResp /\ QueryContent /\ UNCHANGED calls /\ UNCHANGED pending
    \/ resp = NoResp /\ QuerySql /\ UNCHANGED calls /\ UNCHANGED pending

\* The query handler invoked once on a table and a bucket drawn at large.
SpecQuery == InitQuery /\ [][NextQuery]_vars

Next ==
    \/ Tick /\ UNCHANGED pending
    \/ \E body \in IngestBodies : IngestPutObject(body) /\ UNCHANGED pending
    \/ \E body \in IngestBodies : IngestPutObjectFails(body) /\ UNCHANGED pending
    \/ IngestPutItem /\ UNCHANGED pending
    \/ IngestPutItemFails /\ UNCHANGED pending
    \/ \E key \in DOMAIN blobs, fail \in FailPoints : IndexS3Event(key, fail) /\ UNCHANGED pending
    \/ \E id \in RequestIds \ {""}, via \in {"body", "direct"}, fail \in FailPoints :
          IndexById(id, via, fail) /\ UNCHANGED pending
    \/ \E dt \in {"sales", "Sales"}, fm \in [DOMAIN meta -> FailPoints] : BulkIndexByType(dt, fm) /\ UNCHANGED pending
    \/ \E fm \in [DOMAIN meta -> FailPoints] : ReindexAll(fm) /\ UNCHANGED pending
    \/ \E id \in DOMAIN meta, fail \in {"none", "put_doc"} : IndexMetadata(id, fail) /\ UNCHANGED pending
    \/ \E via \in {"body", "direct"} : IndexBadRequest(via) /\ UNCHANGED pending
    \/ \E key \in DOMAIN blobs, fail \in FileFailPoints : BlobEvent(key, fail) /\ UNCHANGED pending
    \/ \E u \in Uploads : Upload(u) /\ UNCHANGED pending
    \/ \E id \in RequestIds : Call /\ QueryById(id) /\ UNCHANGED pending
    \/ \E id \in RequestIds, fail \in {"none", "get_object"} : Call /\ GetContent(id, fail) /\ UNCHANGED pending

Spec == Init /\ [][Next]_vars

\* Largest number of records in one event.
MaxRecords == 2

\* Sequences of 1..n elements of S.
SeqUpTo(S, n) == UNION {[1..k -> S] : k \in 1..n}

\* The fail points of the records of an event of n records in which the
\* call made for record `at` (none when at = 0) fails at `fail`.
FailAt(n, at, fail) == [i \in 1..n |-> IF i = at THEN fail ELSE "none"]

\* The events the index handler can be invoked with: S3 records for objects
\* of the bucket, or stream records for items of the table, where the call
\* made for at most one record is set to fail.
IndexEvents ==
    {[i \in 1..Len(keys) |-> S3Record(keys[i], FailAt(Len(keys), at, fail)[i])] :
        keys \in SeqUpTo(DOMAIN blobs, MaxRecords),
        at \in 0..MaxRecords, fail \in FailPoints \ {"none"}}
    \cup
    {[i \in 1..Len(images) |-> StreamRecord(images[i], FailAt(Len(images), at, "put_doc")[i])] :
        images \in SeqUpTo({meta[id] : id \in DOMAIN meta}, MaxRecords),
        at \in 0..MaxRecords}

NextEvents ==
    \/ \E body \in IngestBodies : IngestPutObject(body) /\ UNCHANGED pending
    \/ IngestPutItem /\ UNCHANGED pending
    \/ \E u \in Uploads : Upload(u) /\ UNCHANGED pending
    \/ \E records \in IndexEvents : IndexEvent(records) /\ UNCHANGED pending

\* Ingests and uploads, and the index handler invoked with events of
\* several records.
SpecEvents == Init /\ [][NextEvents]_vars

\* Files of one data set, as data-upload-script.py names them: two rows, one
\* row, and two rows that do not share their fields.
FileUploads ==
    { [key |-> KeyOf(<<"raw", "sales">>, "sales_1", "csv"),
       text |-> CsvText(<<[name |-> "Ann"], [name |-> "Bob"]>>)],
      [key |-> KeyOf(<<"raw", "sales">>, "sales_2", "csv"),
       text |-> CsvText(<<[name |-> "Cy"]>>)],
      [key |-> KeyOf(<<"raw", "sales">>, "sales_3", "json"),
       text |-> json_dumps(JsonArr(<<[name |-> "Dee"], [city |-> "Rome"]>>))] }

\* The bucket holding the files of S.
BucketWith(S) == [k \in {u.key : u \in S} |-> (CHOOSE u \in S : u.key = k).text]

\* Some of the files have been uploaded; nothing has been processed yet.
\* ES_ENDPOINT is a variable of the index lambda, which this handler does
\* not read.
InitFiles ==
    /\ blobs \in {BucketWith(S) : S \in SUBSET FileUploads}
    /\ meta = EmptyMap
    /\ esDocs = EmptyMap
    /\ esIndices = {}
    /\ ES_ENDPOINT = FALSE
    /\ now = 0
    /\ uuids = 0
    /\ ing = <<>>
    /\ acked = EmptyMap
    /\ calls = 0
    /\ resp = NoResp
    /\ pending = {}

NextFiles ==
    \/ Tick /\ UNCHANGED pending
    \/ \E key \in DOMAIN blobs, fail \in FileFailPoints : BlobEvent(key, fail) /\ UNCHANGED pending

\* The standalone handler invoked for the objects of a bucket of data set
\* files.
SpecFiles == InitFiles /\ [][NextFiles]_vars

\* The event records of the triggers the handler's docstring names (lines
\* 40-46): an ObjectCreated notification for a key put into the bucket, and
\* a stream record with the NewImage of an item written to the table.
S3Notification(key) == [source |-> "s3", key |-> key]
StreamNotification(image) == [source |-> "dynamodb", image |-> image]

\* Sequences of 1..n distinct elements of S.
Batches(S, n) ==
    {b \in SeqUpTo(S, n) : \A i, j \in 1..Len(b) : i # j => b[i] # b[j]}

\* The batches of pending records one invocation can be handed: records of
\* one source.
PendingBatches ==
    Batches({e \in pending : e.source = "s3"}, MaxRecords)
    \cup Batches({e \in pending : e.source = "dynamodb"}, MaxRecords)

\* The ingest handler's put_object makes an ObjectCreated notification.
ChainPutObject(body) ==
    /\ IngestPutObject(body)
    /\ pending' = pending \cup {S3Notification(ing'[1].s3_key)}

\* The ingest handler's put_item makes a stream record.
ChainPutItem ==
    /\ IngestPutItem
    /\ pending' = pending \cup {StreamNotification(meta'[ing[1].data_id])}

\* lambda_handler, lines 39-66 and 100-117, handed a batch of pending
\* records, the call made for record `at` failing at `fail`.  The records
\* leave the queue whatever the answer (the handler returns its 500, it does
\* not raise), and every update_item that returned makes a stream record.
ChainDeliver(batch, at, fail) ==
    LET records == [i \in 1..Len(batch) |->
                       IF batch[i].source = "s3"
                       THEN S3Record(batch[i].key, IF i = at THEN fail ELSE "none")
                       ELSE StreamRecord(batch[i].image, IF i = at THEN fail ELSE "none")]
        r == IndexRecords(CallOutcome(meta, esDocs, esIndices, FALSE, EmptyMap, {}, {})
                             @@ [failed |-> 0],
                          records, 1, now)
    IN
    /\ UNCHANGED <<blobs, ES_ENDPOINT, now, uuids, ing, acked, calls>>
    /\ meta' = r.meta
    /\ esDocs' = r.esDocs
    /\ esIndices' = r.esIndices
    /\ resp' = IndexResp("index_event", [source |-> batch[1].source, count |-> Len(batch)],
                         IF r.raised THEN 500 ELSE 200, r.put, r.marked, r.again)
                  @@ [failed |-> r.failed]
    /\ pending' = (pending \ {batch[i] : i \in 1..Len(batch)})
                    \cup {StreamNotification(r.meta[id]) : id \in r.marked}

\* Some pending records are handed to the index handler.
Deliver ==
    \E batch \in PendingBatches :
       \/ ChainDeliver(batch, 0, "none")
       \/ \E at \in 1..Len(batch), fail \in {"put_doc", "update_item"} :
             ChainDeliver(batch, at, fail)

NextChain ==
    \/ \E body \in IngestBodies : ChainPutObject(body)
    \/ ChainPutItem
    \/ Deliver

\* A step that takes a record from the queue: a Deliver step, the only
\* action of NextChain that does.
HandsOver == pending \ pending' # {}

\* Weak fairness of Deliver, written out (WF_vars(A) is
\* []<>~ENABLED <<A>>_vars \/ []<><<A>>_vars): Deliver is enabled exactly
\* when a record is pending.  The triggers hand every record they hold to
\* the handler.
DeliverFair == []<>(pending = {}) \/ []<><<HandsOver>>_vars

\* Ingests whose notifications and stream records are handed to the index
\* handler; a pending record is handed over eventually.
SpecChain == Init /\ [][NextChain]_vars /\ DeliverFair

(* ================================ claims =============================== *)
\* The key an item's s3Location names.
LocationKey(item) == ParseS3Location(item.s3Location).key

\* The operations of index-data-lambda that index payloads.
IndexOps == {"index_s3", "index_by_id", "bulk_index_by_type", "reindex_all"}

\* The payload indices, and the documents of id in them.
DataIndices == {EsIndexName("data-" \o dt) : dt \in {"sales", "Sales", "user", "unknown"}}

DataDocsOf(id) == {k \in DOMAIN esDocs : k[2] = id /\ k[1] \in DataIndices}

\* C1: the handler writes the payload before the metadata item, so an
\* invocation that has not yet put its item already has its object in the
\* bucket, and every item with status "ingested" names in s3Location the key
\* of an object of the bucket, also after an ingest that failed part-way.
C1_BlobBeforeMetadata ==
    /\ \A i \in 1..Len(ing) : ing[i].s3_key \in DOMAIN blobs
    /\ \A id \in DOMAIN meta :
          Get(meta[id], "status", "") = "ingested" =>
             /\ "s3Location" \in DOMAIN meta[id]
             /\ LocationKey(meta[id]) \in DOMAIN blobs

\* An ingest has succeeded and a later one failed at put_item, leaving its
\* object without an item.
C1_Witness ==
    /\ resp.op = "ingest" /\ ~resp.success
    /\ \E id \in DOMAIN meta : Get(meta[id], "status", "") = "ingested"
    /\ \E k \in DOMAIN blobs : k.name \notin DOMAIN meta

\* C2: once an ingest of payload P has returned its dataId, getContent of
\* that id succeeds and returns P, whatever operations ran in between.
C2_RoundTrip ==
    \A id \in DOMAIN acked :
       /\ GetContentOutcome(id, "none") = "ok"
       /\ json_loads(blobs[LocationKey(meta[id])]) = acked[id]

\* C3: a successful ingest returns an id that was not a key of the table
\* when the call began and that no earlier ingest returned, and a step that
\* adds a key to the table is the put_item of an ingest returning that key.
C3_OnlyIngestCreates ==
    [][ /\ (uuids' # uuids /\ ing' # <<>>) =>
              ing'[1].data_id \notin DOMAIN meta \cup DOMAIN acked
        /\ (ing # <<>> /\ resp'.op = "ingest" /\ resp'.success) =>
              resp'.dataId \notin DOMAIN acked
        /\ \A id \in DOMAIN meta' \ DOMAIN meta :
              resp'.op = "ingest" /\ resp'.success /\ resp'.dataId = id ]_vars

\* C4: after an indexing call that succeeded for an id, the item is marked
\* indexed, and when the id was already marked indexed before the call the
\* payload indices hold exactly one document for it.
C4_IndexTwice ==
    resp.op \in IndexOps =>
       /\ \A id \in resp.marked : WasIndexed(meta, id)
       /\ \A id \in resp.again : Cardinality(DataDocsOf(id)) = 1

\* The index name of a record as derived from its dataType.
DataTypeIndex(item) == EsIndexName("data-" \o Get(item, "dataType", "unknown"))

\* C5 (as amended): whichever of the four entry points of index-data-lambda
\* indexes a record that has an item, the name handed to
\* index_in_elasticsearch is the lower-cased "data-" + dataType of the item.
C5_SameIndexName ==
    resp.op \in IndexOps =>
       \A id \in DOMAIN resp.put :
          id \in DOMAIN meta => resp.put[id] = DataTypeIndex(meta[id])

\* C5 (as stated): the same, and process_file run on the object of a record
\* writes to the index of that name too.
C5_SameIndexNameEveryHandler ==
    /\ C5_SameIndexName
    /\ (/\ resp.op = "process_file"
        /\ resp.records_indexed > 0
        /\ resp.key.name \in DOMAIN meta
        /\ "s3Location" \in DOMAIN meta[resp.key.name]
        /\ LocationKey(meta[resp.key.name]) = resp.key)
       => resp.index = DataTypeIndex(meta[resp.key.name])

\* A bulk request for the type "Sales" has written a document.
C5_Witness ==
    /\ resp.op = "bulk_index_by_type"
    /\ resp.arg = "Sales"
    /\ \E id \in DOMAIN resp.put : <<resp.put[id], id>> \in DOMAIN esDocs

\* C6: a batch over N items of which M < N cannot be read, with no other
\* failure, answers success with totalItems = N and indexedItems = N - M,
\* and each of the N - M readable items has its document in the index.
C6_BatchCounts ==
    (/\ resp.op \in {"bulk_index_by_type", "reindex_all"}
     /\ resp.faults = {}
     /\ Cardinality(resp.unreadable) < Cardinality(resp.selected))
    => /\ resp.success
       /\ resp.totalItems = Cardinality(resp.selected)
       /\ resp.indexedItems = Cardinality(resp.selected) - Cardinality(resp.unreadable)
       /\ \A id \in resp.selected \ resp.unreadable : DataDocsOf(id) # {}

\* The key of the blob event an answer is about.
EventKey(r) == IF r.op = "process_file" THEN r.key ELSE r.arg

\* A blob event for a key that ends in "/" or has fewer than two segments
\* writes nothing and is answered with success.
SkippedQuietly(ops) ==
    (/\ calls' # calls
     /\ resp'.op \in ops
     /\ EndsWithSlash(EventKey(resp')) \/ PathDepth(EventKey(resp')) < 2)
    => /\ UNCHANGED <<blobs, meta, esDocs, esIndices>>
       /\ resp'.status = 200

\* C7 (as amended): lambda_handler and process_file of lambda-function.py
\* skip a key that ends in "/" or has fewer than two path segments: no index
\* write, no bucket write, no table write, and the success answer.
C7_SkipKeys == [][SkippedQuietly({"process_file"})]_vars

\* C7 (as stated): every handler of blob events does.
C7_SkipKeysEveryHandler == [][SkippedQuietly({"process_file", "index_s3"})]_vars

\* The standalone handler has answered an event for a root-level object.
C7_Witness ==
    /\ resp.op = "process_file"
    /\ resp.key \in DOMAIN blobs
    /\ PathDepth(resp.key) < 2
    /\ resp.success

\* Whether an item satisfies every criterion the parameters provide.
Satisfies(item, params) ==
    /\ "dataType" \in DOMAIN params =>
          "dataType" \in DOMAIN item /\ item.dataType = params.dataType
    /\ "owner" \in DOMAIN params =>
          "owner" \in DOMAIN item /\ item.owner = params.owner
    /\ "source" \in DOMAIN params =>
          "source" \in DOMAIN item /\ item.source = params.source
    /\ ("fromDate" \in DOMAIN params /\ "toDate" \in DOMAIN params) =>
          /\ "timestamp" \in DOMAIN item
          /\ params.fromDate <= item.timestamp
          /\ item.timestamp <= params.toDate
    /\ "tags" \in DOMAIN params =>
          \A i \in 1..Len(params.tags) :
             /\ "tags" \in DOMAIN item
             /\ \E j \in 1..Len(item.tags) : item.tags[j] = params.tags[i]

\* Whether the parameters provide a criterion that restricts.
Restricts(params) ==
    \/ {"dataType", "owner", "source"} \cap DOMAIN params # {}
    \/ {"fromDate", "toDate"} \subseteq DOMAIN params
    \/ "tags" \in DOMAIN params /\ params.tags # <<>>

\* C8: search_metadata returns only items that satisfy every provided
\* criterion at once (data type, owner, source, the date range when both
\* ends are given, every listed tag), and with a restricting criterion it
\* returns all of them: an absent criterion does not restrict.
C8_SearchConjunction ==
    resp.op = "search_metadata" =>
       /\ \A id \in resp.items : id \in DOMAIN meta /\ Satisfies(meta[id], resp.params)
       /\ Restricts(resp.params) =>
             resp.items = {id \in DOMAIN meta : Satisfies(meta[id], resp.params)}

\* A search by type, owner, source, date range and two tags has returned
\* some items of the table and left others out.
C8_Witness ==
    /\ resp.op = "search_metadata"
    /\ {"dataType", "owner", "source", "fromDate", "toDate", "tags"} \subseteq DOMAIN resp.params
    /\ Len(resp.params.tags) = 2
    /\ resp.items # {}
    /\ resp.items # DOMAIN meta

\* C9: search_metadata with none of the recognised criteria returns at most
\* 20 items.
C9_UnfilteredLimit ==
    (/\ resp.op = "search_metadata"
     /\ DOMAIN resp.params \cap {"dataType", "owner", "source", "fromDate", "toDate", "tags"} = {})
    => /\ resp.count <= ScanLimit
       /\ Cardinality(resp.items) <= ScanLimit

\* A search without criteria on a table of more than 20 items has returned 20.
C9_Witness ==
    /\ resp.op = "search_metadata"
    /\ DOMAIN resp.params = {"type"}
    /\ Cardinality(DOMAIN meta) > ScanLimit
    /\ resp.count = ScanLimit

\* C10: getContent for an id without an item, and for an item whose object
\* is not in the bucket, is answered normally (200) with success = false.
C10_MissingIsNegative ==
    (/\ resp.op = "get_content"
     /\ resp.id # ""
     /\ \/ resp.id \notin DOMAIN meta
        \/ /\ "s3Location" \in DOMAIN meta[resp.id]
           /\ LocationKey(meta[resp.id]) \notin DOMAIN blobs)
    => resp.status = 200 /\ ~resp.success

\* The answers of the entry points behind the HTTP API (an unrecognised
\* request to the index handler counts when it came with a body).
HttpOps ==
    {"ingest", "index_by_id", "bulk_index_by_type", "index_bad_request",
     "query_by_id", "get_content", "search_metadata",
     "query_sql", "query_sql_missing", "query_unsupported"}

\* C11: an HTTP entry point answers 200 exactly on success, 400 to a
\* malformed request (no id, no SQL text, unrecognised request), 404 when
\* the record asked for is not found, and 500 when a collaborator or
\* anything else fails.
C11_StatusCodes ==
    (resp.op \in HttpOps /\ (resp.op = "index_bad_request" => resp.arg = "body")) =>
       /\ resp.status = 200 <=> resp.success
       /\ resp.op \in {"index_bad_request", "query_sql_missing", "query_unsupported"} =>
             resp.status = 400
       /\ resp.op \in {"query_by_id", "get_content"} =>
             /\ resp.id = "" => resp.status = 400
             /\ (resp.id # "" /\ resp.id \notin DOMAIN meta) => resp.status = 404
             /\ (resp.id \in DOMAIN meta /\ ~resp.success) => resp.status = 500
       /\ resp.op = "index_by_id" =>
             /\ resp.arg \notin DOMAIN meta => resp.status = 404
             /\ (resp.arg \in DOMAIN meta /\ ~resp.success) => resp.status = 500
       /\ (resp.op = "ingest" /\ ~resp.success) => resp.status = 500

\* C12: whatever the event and whichever collaborator fails, a handler
\* answers with a structured result: a status code and a body.
C12_StructuredResult ==
    resp.op # "none" =>
       /\ resp.status \in {200, 400, 404, 500}
       /\ resp.success \in BOOLEAN
       /\ resp.success => resp.status = 200

\* The standalone handler has answered an event whose processed copy could
\* not be written, after the rows were indexed.
C12_Witness ==
    /\ resp.op = "process_file"
    /\ resp.copy = "failed"
    /\ resp.status = 500

\* C13: when the Elasticsearch request for a record succeeded and the
\* update_item that follows failed, the document of that request is in the
\* index afterwards, in the single-record paths and in the batches.
C13_NoRollback ==
    (resp.op \in IndexOps /\ ES_ENDPOINT) =>
       \A id \in DOMAIN resp.put \ resp.marked :
          /\ <<resp.put[id], id>> \in DOMAIN esDocs
          /\ esDocs[<<resp.put[id], id>>].indexed_at = now

\* A bulk request has written the document of a record whose update_item
\* then failed.
C13_Witness ==
    /\ resp.op = "bulk_index_by_type"
    /\ ES_ENDPOINT
    /\ DOMAIN resp.put \ resp.marked # {}

\* C14: when the processed copy of a file cannot be written, the rows
\* already indexed stay indexed and the standalone handler does not report
\* a failure.
C14_CopyFailureIgnored ==
    (resp.op = "process_file" /\ resp.copy = "failed") =>
       /\ \A i \in 1..resp.records_indexed :
             <<resp.index, ToString(i - 1)>> \in DOMAIN esDocs
       /\ resp.status = 200

\* A blob event for an object whose id has no item is not answered "not
\* found", and the document it writes carries the synthesized metadata: the
\* id and the location of the object, nothing else.
SynthesizesOnBlobEvent ==
    (calls' # calls /\ resp'.op = "index_s3" /\ resp'.arg.name \notin DOMAIN meta) =>
       /\ resp'.status # 404
       /\ (ES_ENDPOINT /\ resp'.arg.name \in DOMAIN resp'.put) =>
             esDocs'[<<resp'.put[resp'.arg.name], resp'.arg.name>>].metadata
                = [id |-> resp'.arg.name, s3Location |-> S3Url(S3_BUCKET, resp'.arg)]

\* C15 (as amended): index_s3_object, asked to index an object whose id has
\* no item in the table, does not fail for that reason: it indexes the
\* document with metadata made of the id and the object location only.
C15_SynthesizedMetadata == [][SynthesizesOnBlobEvent]_vars

\* C15 (as stated): index_by_id does the same for an id without an item.
C15_SynthesizedEveryEntryPoint ==
    [][ /\ SynthesizesOnBlobEvent
        /\ (calls' # calls /\ resp'.op = "index_by_id" /\ resp'.arg \notin DOMAIN meta) =>
              resp'.status # 404 /\ resp'.arg \in DOMAIN resp'.put ]_vars

\* A blob event has indexed an object that had no item: the document holds
\* the synthesized metadata and the table now holds the item update_item made.
C15_Witness ==
    /\ resp.op = "index_s3"
    /\ ES_ENDPOINT
    /\ resp.arg.name \in DOMAIN resp.put
    /\ esDocs[<<resp.put[resp.arg.name], resp.arg.name>>].metadata
          = [id |-> resp.arg.name, s3Location |-> S3Url(S3_BUCKET, resp.arg)]
    /\ resp.arg.name \in DOMAIN meta
    /\ DOMAIN meta[resp.arg.name] = {"id", "indexed", "indexedAt"}

\* The fields ingest writes, other than the two the indexer sets.
IngestFields(item) == DOMAIN item \ {"indexed", "indexedAt"}

\* C16: once ingest has created the item of a record, every later step
\* leaves the fields ingest wrote as they are, and a step changes indexed
\* or indexedAt only when it is an indexing call that marks the record and
\* has put its document into the index.
C16_OnlyIndexedChanges ==
    [][ \A id \in DOMAIN acked :
          /\ id \in DOMAIN meta'
          /\ IngestFields(meta'[id]) = IngestFields(meta[id])
          /\ \A f \in IngestFields(meta[id]) : meta'[id][f] = meta[id][f]
          /\ meta'[id] # meta[id] =>
                /\ resp'.op \in IndexOps
                /\ id \in resp'.marked
                /\ <<resp'.put[id], id>> \in DOMAIN esDocs' ]_vars

\* C17: the object ingest wrote for a record is never written again: a new
\* ingest picks a key the bucket does not hold, and no step changes the
\* object at the key of an ingested record.
C17_NoOverwrite ==
    [][ /\ (ing = <<>> /\ ing' # <<>>) => ing'[1].s3_key \notin DOMAIN blobs
        /\ \A id \in DOMAIN acked :
              /\ LocationKey(meta[id]) \in DOMAIN blobs'
              /\ blobs'[LocationKey(meta[id])] = blobs[LocationKey(meta[id])] ]_vars

\* C18: when put_item fails after the object was put, the invocation ends
\* there: it answers a failure without a dataId, writes nothing more, and
\* leaves no item that names the object; an ingest started afterwards draws
\* an id and a key that were not used before.
C18_IngestFailure ==
    [][ /\ (ing # <<>> /\ ing' = <<>> /\ ~resp'.success) =>
              /\ resp'.op = "ingest"
              /\ resp'.status = 500
              /\ "dataId" \notin DOMAIN resp'
              /\ meta' = meta /\ blobs' = blobs /\ calls' = calls
              /\ ing[1].s3_key \in DOMAIN blobs'
              /\ \A id \in DOMAIN meta' :
                    "s3Location" \in DOMAIN meta'[id] =>
                       LocationKey(meta'[id]) # ing[1].s3_key
        /\ (ing = <<>> /\ ing' # <<>>) =>
              /\ ing'[1].s3_key \notin DOMAIN blobs
              /\ ing'[1].data_id \notin {k.name : k \in DOMAIN blobs}
              /\ ing'[1].data_id \notin DOMAIN meta ]_vars

\* An ingest failed at put_item and left its object; the same payload is
\* being ingested again under another id and key.
C18_Witness ==
    /\ ing # <<>>
    /\ \E k \in DOMAIN blobs :
          /\ k # ing[1].s3_key
          /\ k.dir = ing[1].s3_key.dir
          /\ k.name \notin DOMAIN meta
          /\ blobs[k] = blobs[ing[1].s3_key]

\* C19: after an indexing call that succeeded for an id, the payload
\* indices hold for that id the document {metadata, content, indexed_at}
\* built by that call and no other document, and no step takes back an
\* indexed flag that was true.
C19_ReindexReplaces ==
    [][ /\ (calls' # calls /\ resp'.op \in IndexOps) =>
              \A id \in resp'.marked :
                 /\ {k \in DOMAIN esDocs' : k[2] = id /\ k[1] \in DataIndices}
                       = {<<resp'.put[id], id>>}
                 /\ DOMAIN esDocs'[<<resp'.put[id], id>>]
                       = {"metadata", "content", "indexed_at"}
                 /\ esDocs'[<<resp'.put[id], id>>].indexed_at = now'
        /\ \A id \in DOMAIN meta : WasIndexed(meta, id) => WasIndexed(meta', id) ]_vars

\* C20: an item marked indexed has a document under its id in the Search
\* Index, a record an indexing call marked has the document of that call in
\* the index it was put to, and a batch counts in indexedItems no more
\* records than have a document.
C20_IndexedHasDocument ==
    /\ \A id \in DOMAIN meta :
          WasIndexed(meta, id) => \E k \in DOMAIN esDocs : k[2] = id
    /\ resp.op \in IndexOps =>
          \A id \in resp.marked : <<resp.put[id], id>> \in DOMAIN esDocs
    /\ resp.op \in {"bulk_index_by_type", "reindex_all"} =>
          resp.indexedItems <= Cardinality({id \in resp.selected : \E k \in DOMAIN esDocs : k[2] = id})

\* The item of id holds every field ingest writes and is marked indexed, and
\* with the endpoint set the only payload document of id is in the index
\* named after the item's dataType.
IngestedAndIndexed(tbl, docs, id) ==
    /\ id \in DOMAIN tbl
    /\ {"id", "timestamp", "dataType", "source", "owner", "s3Location", "sizeBytes", "status"}
          \subseteq DOMAIN tbl[id]
    /\ WasIndexed(tbl, id)
    /\ ES_ENDPOINT =>
          {k \in DOMAIN docs : k[2] = id /\ k[1] \in DataIndices}
             = {<<DataTypeIndex(tbl[id]), id>>}

\* C21: whichever of an ingest and a successful blob-event indexing of the
\* same record completes last, and also when the indexing ran between the
\* ingest's put_object and its put_item, the state after it holds the item
\* with all ingest fields and indexed = true and the record's only document
\* in the index of its dataType.
C21_IngestIndexRace ==
    [][ /\ (ing # <<>> /\ resp'.op = "ingest" /\ resp'.success
            /\ WasIndexed(meta, ing[1].data_id)) =>
              IngestedAndIndexed(meta', esDocs', ing[1].data_id)
        /\ (calls' # calls /\ resp'.op = "index_s3"
            /\ resp'.arg.name \in DOMAIN acked /\ resp'.arg.name \in resp'.marked) =>
              IngestedAndIndexed(meta', esDocs', resp'.arg.name) ]_vars

\* Whether the call made for a record raises: get_object on a missing key or
\* failing, or a failing request or update_item for an object that parses.
RecordRaises(record) ==
    IF record.source = "s3"
    THEN \/ record.key \notin DOMAIN blobs
         \/ record.fail = "get_object"
         \/ /\ IsJsonText(blobs[record.key])
            /\ PutDocRaises(record.fail) \/ record.fail = "update_item"
    ELSE PutDocRaises(record.fail)

\* The number of the first record of an event that raises, 0 when none does.
FirstRaising(records) ==
    IF \E i \in 1..Len(records) : RecordRaises(records[i])
    THEN CHOOSE i \in 1..Len(records) :
            /\ RecordRaises(records[i])
            /\ \A j \in 1..(i - 1) : ~RecordRaises(records[j])
    ELSE 0

\* The document a record is indexed under, and the table item it marks.
RecordDocKey(tbl, record) ==
    IF record.source = "s3"
    THEN <<EsIndexName(IndexNameS3(IF record.key.name \in DOMAIN tbl
                                   THEN tbl[record.key.name]
                                   ELSE SynthesizedMetadata(record.key.name, record.key))),
           record.key.name>>
    ELSE <<EsIndexName("metadata-" \o Get(record.image, "dataType", "unknown")),
           record.image.id>>

RecordItemId(record) ==
    IF record.source = "s3" THEN record.key.name ELSE record.image.id

\* Whether a record that does not raise has something to index.
RecordIndexes(record) ==
    record.source = "s3" => IsJsonText(blobs[record.key])

\* m and n agree outside the keys of S.
SameOutside(m, n, S) ==
    /\ DOMAIN m \ S = DOMAIN n \ S
    /\ \A k \in DOMAIN m \ S : m[k] = n[k]

\* C22: the index handler works through the records of an event in event
\* order in one invocation.  It answers 500 exactly when a record raises;
\* the records before the first raising one are indexed (document written,
\* item marked indexed) and stay so, and nothing is written for the records
\* after it.
C22_EventStopsAtFirstError ==
    [][ (calls' # calls /\ resp'.op = "index_event") =>
          LET records == resp'.arg
              f == FirstRaising(records)
              upTo == IF f = 0 THEN Len(records) ELSE f
              done == {i \in 1..upTo : i # f /\ RecordIndexes(records[i])}
          IN
          /\ resp'.failed = f
          /\ resp'.status = IF f = 0 THEN 200 ELSE 500
          /\ \A i \in done :
                /\ ES_ENDPOINT => RecordDocKey(meta, records[i]) \in DOMAIN esDocs'
                /\ records[i].source = "s3" =>
                      /\ WasIndexed(meta', RecordItemId(records[i]))
                      /\ meta'[RecordItemId(records[i])].indexedAt = now
                      /\ ES_ENDPOINT =>
                            /\ esDocs'[RecordDocKey(meta, records[i])].indexed_at = now
                            /\ esDocs'[RecordDocKey(meta, records[i])].content
                                  = json_loads(blobs[records[i].key])
          /\ SameOutside(esDocs, esDocs', {RecordDocKey(meta, records[i]) : i \in 1..upTo})
          /\ SameOutside(meta, meta',
                         {RecordItemId(records[i]) : i \in {j \in 1..upTo : j # f}})
          /\ blobs' = blobs ]_vars

\* An event of two records for two objects whose second record raised: the
\* first object is indexed and marked, the second is not.
C22_Witness ==
    /\ ES_ENDPOINT
    /\ resp.op = "index_event"
    /\ Len(resp.arg) = 2
    /\ resp.failed = 2
    /\ resp.status = 500
    /\ resp.arg[1].source = "s3"
    /\ resp.arg[1].key # resp.arg[2].key
    /\ resp.marked = {resp.arg[1].key.name}
    /\ \E k \in DOMAIN esDocs : k[2] = resp.arg[1].key.name
    /\ \A k \in DOMAIN esDocs : k[2] # resp.arg[2].key.name
    /\ WasIndexed(meta, resp.arg[1].key.name)
    /\ ~WasIndexed(meta, resp.arg[2].key.name)

\* Row i of the file a step processed, as the file has it.
FileRow(i) == blobs[resp'.key].rows[i + 1]

\* Row i of the data frame read from that file, with the processed_timestamp
\* column and nulls for the columns the row lacks.
FrameRow(i) ==
    CleanedRecord(WithProcessedTimestamp(DataFrame(blobs[resp'.key])[i + 1], now))

\* C23 (as amended): after process_file has indexed a file of n rows into
\* index X, every document "0" .. "n-1" whose bulk item carried no error is
\* that row of the data frame read from the file, with the
\* processed_timestamp column added; flagged rows and every other document
\* of X stay as X held them, and records_indexed is n either way.
C23_IndexedRows ==
    [][ (calls' # calls /\ resp'.op = "process_file" /\ resp'.copy # "none") =>
          LET n == Len(blobs[resp'.key].rows)
              X == resp'.index
              written == {<<X, ToString(i)>> : i \in (0..(n - 1)) \ resp'.rejected}
          IN
          /\ resp'.records_indexed = n
          /\ written \subseteq DOMAIN esDocs'
          /\ \A i \in (0..(n - 1)) \ resp'.rejected :
                esDocs'[<<X, ToString(i)>>] = FrameRow(i)
          /\ SameOutside(esDocs, esDocs', written) ]_vars

\* C23 (as stated): the documents "0" .. "n-1" are exactly the file's rows.
C23_ExactRows ==
    [][ (calls' # calls /\ resp'.op = "process_file" /\ resp'.copy # "none") =>
          LET n == Len(blobs[resp'.key].rows)
          IN /\ resp'.records_indexed = n
             /\ \A i \in 0..(n - 1) :
                   /\ <<resp'.index, ToString(i)>> \in DOMAIN esDocs'
                   /\ esDocs'[<<resp'.index, ToString(i)>>] = FileRow(i) ]_vars

\* The one-row file was processed after the two-row file of the same data
\* set: document "0" is the row of the second file, document "1" still the
\* row of the first.
C23_Witness ==
    /\ resp.op = "process_file"
    /\ resp.key = KeyOf(<<"raw", "sales">>, "sales_2", "csv")
    /\ resp.copy = "written"
    /\ resp.records_indexed = 1
    /\ <<resp.index, "0">> \in DOMAIN esDocs
    /\ esDocs[<<resp.index, "0">>].name = "Cy"
    /\ <<resp.index, "1">> \in DOMAIN esDocs
    /\ esDocs[<<resp.index, "1">>].name = "Bob"

\* The document a stream record is indexed under.
MetadataDocKey(record) ==
    <<EsIndexName("metadata-" \o Get(record.image, "dataType", "unknown")), record.image.id>>

\* An invocation handed stream records writes the converted images under
\* metadata-<dataType> and the record's id (all of them when it answers
\* 200, the later of two images of one item winning); it writes nothing
\* else to the domain, nothing to the table or the bucket, and makes no new
\* event record.
StreamRecordsOnlyIndex ==
    (pending' # pending /\ resp'.op = "index_event" /\ resp'.arg.source = "dynamodb") =>
       LET handed == pending \ pending'
       IN
       /\ meta' = meta
       /\ blobs' = blobs
       /\ pending' \subseteq pending
       /\ Cardinality(handed) = resp'.arg.count
       /\ SameOutside(esDocs, esDocs', {MetadataDocKey(e) : e \in handed})
       /\ (ES_ENDPOINT /\ resp'.status = 200) =>
             \A e \in handed :
                /\ MetadataDocKey(e) \in DOMAIN esDocs'
                /\ \E last \in handed :
                      /\ MetadataDocKey(last) = MetadataDocKey(e)
                      /\ esDocs'[MetadataDocKey(e)] = convert_dynamodb_to_json(last.image)
       /\ ~ES_ENDPOINT => esDocs' = esDocs

\* C24: an invocation for Metadata Table stream records (index_metadata)
\* writes only to the search domain, under metadata-<dataType> and the
\* record's id, and neither the table nor the bucket, so it makes no further
\* event: whenever event records are pending, a state with no pending record
\* is reached.
C24_StreamChainEnds ==
    /\ [][StreamRecordsOnlyIndex]_vars
    /\ (pending # {}) ~> (pending = {})

\* The stream record of an indexer's update_item has been handled by
\* index_metadata and no event record is pending.
C24_Witness ==
    /\ ES_ENDPOINT
    /\ pending = {}
    /\ resp.op = "index_event"
    /\ resp.status = 200
    /\ resp.arg.source = "dynamodb"
    /\ \E id \in DOMAIN meta :
          /\ WasIndexed(meta, id)
          /\ MetadataDocKey(StreamNotification(meta[id])) \in DOMAIN esDocs
          /\ esDocs[MetadataDocKey(StreamNotification(meta[id]))]
                = convert_dynamodb_to_json(meta[id])

====
